---- MODULE Spec2Model ----
(***************************************************************************)
(* vibe-board: a kanban board (three status columns), a quick-todo list    *)
(* and a notes pad, all mirrored to localStorage (src/src/App.tsx).        *)
(*                                                                         *)
(* Strings are sequences of one-character strings, so that trim(), the     *)
(* JSON encoder and the JSON parser are computed character by character.   *)
(***************************************************************************)
EXTENDS Integers, Sequences, FiniteSets

\* ------------------------------------------------------------------ bounds
MaxTasks == 2
MaxTodos == 1

\* ----------------------------------------------------------------- strings
SP == " "
Empty == <<>>

\* TaskStatus (types.ts:1) and COLUMNS (App.tsx:20-24)
TODO == <<"t", "o", "d", "o">>
INPROGRESS == <<"i", "n", "-", "p", "r", "o", "g", "r", "e", "s", "s">>
COMPLETE == <<"c", "o", "m", "p", "l", "e", "t", "e">>
TaskStatus == {TODO, INPROGRESS, COMPLETE}
COLUMNS == <<TODO, INPROGRESS, COMPLETE>>

\* A status outside the enumeration, as a stored entry may hold one.
DONE == <<"d", "o", "n", "e">>

\* object keys
K_id == <<"i", "d">>
K_title == <<"t", "i", "t", "l", "e">>
K_description == <<"d", "e", "s", "c", "r", "i", "p", "t", "i", "o", "n">>
K_status == <<"s", "t", "a", "t", "u", "s">>
K_createdAt == <<"c", "r", "e", "a", "t", "e", "d", "A", "t">>
K_text == <<"t", "e", "x", "t">>
K_done == <<"d", "o", "n", "e">>
L_true == <<"t", "r", "u", "e">>
L_false == <<"f", "a", "l", "s", "e">>

\* localStorage keys
KeyTasks == "vibe-tasks"
KeyTodos == "vibe-todos"
KeyNotes == "vibe-notes"
StorageKeys == {KeyTasks, KeyTodos, KeyNotes}

\* null / undefined, and a present value
Null == [has |-> FALSE]
Some(v) == [has |-> TRUE, val |-> v]

\* String.prototype.trim: strips leading and trailing white space
RECURSIVE trimStart(_)
trimStart(s) ==
  IF s # Empty /\ Head(s) = SP THEN trimStart(Tail(s)) ELSE s

RECURSIVE trimEnd(_)
trimEnd(s) ==
  IF s # Empty /\ s[Len(s)] = SP THEN trimEnd(SubSeq(s, 1, Len(s) - 1)) ELSE s

trim(s) == trimEnd(trimStart(s))

\* ------------------------------------------------------------ JSON encoder
Digits == <<"0", "1", "2", "3", "4", "5", "6", "7", "8", "9">>

RECURSIVE numberToText(_)
numberToText(n) ==
  IF n < 10 THEN <<Digits[n + 1]>>
  ELSE numberToText(n \div 10) \o <<Digits[(n % 10) + 1]>>

\* The modelled alphabet has no quote, backslash or control character, so a
\* string is encoded as itself between quotes.
quote(s) == <<"\"">> \o s \o <<"\"">>

member(key, valueText) == quote(key) \o <<":">> \o valueText

RECURSIVE joinComma(_)
joinComma(texts) ==
  IF texts = <<>> THEN <<>>
  ELSE IF Len(texts) = 1 THEN texts[1]
  ELSE texts[1] \o <<",">> \o joinComma(Tail(texts))

\* JSON.stringify of a Task: own properties in creation order, a property
\* whose value is undefined is left out.
stringifyTask(t) ==
  <<"{">>
  \o joinComma(
       <<member(K_id, quote(t.id)), member(K_title, quote(t.title))>>
       \o (IF t.description.has
             THEN <<member(K_description, quote(t.description.val))>>
             ELSE <<>>)
       \o <<member(K_status, quote(t.status)),
            member(K_createdAt, numberToText(t.createdAt))>>)
  \o <<"}">>

stringifyTodo(t) ==
  <<"{">>
  \o joinComma(
       <<member(K_id, quote(t.id)), member(K_text, quote(t.text)),
         member(K_done, IF t.done THEN L_true ELSE L_false)>>)
  \o <<"}">>

stringifyTasks(ts) ==
  <<"[">> \o joinComma([i \in 1..Len(ts) |-> stringifyTask(ts[i])]) \o <<"]">>

stringifyTodos(ts) ==
  <<"[">> \o joinComma([i \in 1..Len(ts) |-> stringifyTodo(ts[i])]) \o <<"]">>

\* ------------------------------------------------------------- JSON parser
\* A parse result: ok, the value (tagged with its kind) and the position of
\* the first character after it.  A failure stands for the SyntaxError.
Fail == [ok |-> FALSE, val |-> [k |-> "none", v |-> 0], next |-> 0]
Ok(kind, v, next) == [ok |-> TRUE, val |-> [k |-> kind, v |-> v], next |-> next]

At(t, i) == IF i >= 1 /\ i <= Len(t) THEN t[i] ELSE "EOF"

IsDigit(c) == \E d \in 1..10 : Digits[d] = c
DigitValue(c) == (CHOOSE d \in 1..10 : Digits[d] = c) - 1

StartsWith(t, i, lit) ==
  /\ i + Len(lit) - 1 <= Len(t)
  /\ SubSeq(t, i, i + Len(lit) - 1) = lit

RECURSIVE stringEnd(_, _)
\* position of the closing quote of a string whose body starts at i, or 0
stringEnd(t, i) ==
  IF i > Len(t) THEN 0
  ELSE IF t[i] = "\"" THEN i
  ELSE stringEnd(t, i + 1)

parseString(t, i) ==
  IF At(t, i) # "\"" THEN Fail
  ELSE LET e == stringEnd(t, i + 1)
       IN IF e = 0 THEN Fail ELSE Ok("str", SubSeq(t, i + 1, e - 1), e + 1)

RECURSIVE parseDigits(_, _, _)
parseDigits(t, i, acc) ==
  IF IsDigit(At(t, i)) THEN parseDigits(t, i + 1, acc * 10 + DigitValue(t[i]))
  ELSE Ok("num", acc, i)

\* JSON numbers: no leading zero before another digit
parseNumber(t, i) ==
  IF ~IsDigit(At(t, i)) THEN Fail
  ELSE IF t[i] = "0" /\ IsDigit(At(t, i + 1)) THEN Fail
  ELSE parseDigits(t, i, 0)

RECURSIVE parseValue(_, _)
RECURSIVE parseElements(_, _, _)
RECURSIVE parseMembers(_, _, _)

parseValue(t, i) ==
  LET c == At(t, i)
  IN IF c = "\"" THEN parseString(t, i)
     ELSE IF IsDigit(c) THEN parseNumber(t, i)
     ELSE IF StartsWith(t, i, L_true) THEN Ok("bool", TRUE, i + Len(L_true))
     ELSE IF StartsWith(t, i, L_false) THEN Ok("bool", FALSE, i + Len(L_false))
     ELSE IF c = "[" THEN
       (IF At(t, i + 1) = "]" THEN Ok("arr", <<>>, i + 2)
        ELSE parseElements(t, i + 1, <<>>))
     ELSE IF c = "{" THEN
       (IF At(t, i + 1) = "}" THEN Ok("obj", <<>>, i + 2)
        ELSE parseMembers(t, i + 1, <<>>))
     ELSE Fail

\* elements of an array, the first one starting at i
parseElements(t, i, acc) ==
  LET r == parseValue(t, i)
  IN IF ~r.ok THEN Fail
     ELSE IF At(t, r.next) = "," THEN parseElements(t, r.next + 1, Append(acc, r.val))
     ELSE IF At(t, r.next) = "]" THEN Ok("arr", Append(acc, r.val), r.next + 1)
     ELSE Fail

\* members of an object, the first key starting at i
parseMembers(t, i, acc) ==
  LET key == parseString(t, i)
  IN IF ~key.ok \/ At(t, key.next) # ":" THEN Fail
     ELSE LET r == parseValue(t, key.next + 1)
          IN IF ~r.ok THEN Fail
             ELSE LET m == [key |-> key.val.v, val |-> r.val]
                  IN IF At(t, r.next) = "," THEN
                       parseMembers(t, r.next + 1, Append(acc, m))
                     ELSE IF At(t, r.next) = "}" THEN
                       Ok("obj", Append(acc, m), r.next + 1)
                     ELSE Fail

\* JSON.parse: the whole text must be one value; otherwise it throws
JSONparse(t) ==
  LET r == parseValue(t, 1)
  IN IF r.ok /\ r.next = Len(t) + 1 THEN [ok |-> TRUE, val |-> r.val]
     ELSE [ok |-> FALSE, val |-> Fail.val]

\* ------------------------------------------------- reading parsed objects
hasKey(o, key) == \E i \in 1..Len(o.v) : o.v[i].key = key
get(o, key) == o.v[CHOOSE i \in 1..Len(o.v) : o.v[i].key = key].val

\* Mutant: a missing description is defaulted to the empty string.
asTask_defaultDescription(o) ==
  [id |-> get(o, K_id).v,
   title |-> get(o, K_title).v,
   description |-> IF hasKey(o, K_description)
                     THEN Some(get(o, K_description).v) ELSE Some(Empty),
   status |-> get(o, K_status).v,
   createdAt |-> get(o, K_createdAt).v]

\* The fields the components read of an element of the parsed array; a
\* missing property reads as undefined.
asTask(o) ==
  [id |-> get(o, K_id).v,
   title |-> get(o, K_title).v,
   description |-> IF hasKey(o, K_description)
                     THEN Some(get(o, K_description).v) ELSE Null,
   status |-> get(o, K_status).v,
   createdAt |-> get(o, K_createdAt).v]

asTodo(o) ==
  [id |-> get(o, K_id).v, text |-> get(o, K_text).v, done |-> get(o, K_done).v]

\* ------------------------------------------------------------ input ranges
\* generateId: the strings Math.random().toString(36).slice(2, 11) can give
generateId == {<<"k">>, <<"q">>}
\* Date.now()
Timestamps == {12}
\* what the user can type
TitleInputs == {<<SP>>, <<SP, "a">>}
DescInputs == {<<SP>>}
TodoInputs == {<<SP>>, <<"a", SP>>}
NoteInputs == {Empty, <<"n">>}

\* ------------------------------------------- what storage can hold at start
StoredTask(status, description) ==
  [id |-> <<"k">>, title |-> <<"a">>, description |-> description,
   status |-> status, createdAt |-> 12]
StoredTodo == [id |-> <<"k">>, text |-> <<"a">>, done |-> FALSE]
Truncated == <<"[", "{">>

InitialTaskEntries ==
  {Null, Some(Empty), Some(Truncated),
   Some(stringifyTasks(<<StoredTask(COMPLETE, Some(<<"b">>))>>)),
   Some(stringifyTasks(<<StoredTask(DONE, Null)>>))}
InitialTodoEntries ==
  {Null, Some(Empty), Some(Truncated), Some(stringifyTodos(<<StoredTodo>>))}
InitialNoteEntries == {Null, Some(Empty), Some(<<"n">>)}

\* ------------------------------------------------------------------- state
VARIABLES
  localStorage,    \* key -> Null | Some(text)
  phase,           \* "boot" (page loaded, App not yet rendered), "running", "crashed"
  tasks, todos, notes,
  activeTask,      \* Null | Some(task)
  newTodo, showTaskModal, newTaskStatus, newTaskTitle, newTaskDesc,
  dndActive,       \* the drag the DndContext has in progress: Null | Some(id)
  focus,           \* the pane the user works in during this page session
  lastOp           \* the operation that produced this state

vars == <<localStorage, phase, tasks, todos, notes, activeTask, newTodo,
          showTaskModal, newTaskStatus, newTaskTitle, newTaskDesc, dndActive,
          focus, lastOp>>

ui == <<activeTask, newTodo, showTaskModal, newTaskStatus, newTaskTitle,
        newTaskDesc>>

\* Exploration bounds on the user, not on the program.
\*  - The board (tasks, modal, drag) and the sidebar (quick todos, notes)
\*    share no state, no handler and no storage key: a page session is
\*    explored with the user working in one of the two panes, the other pane
\*    starting from an absent or malformed entry.
\*  - One interaction at a time: while the Add-Task modal (an overlay) is open
\*    the user acts inside it; while a drag is in progress the only events
\*    are its end, its cancellation and the deletion of a card.
\*  - A cancelled drag leaves activeTask set; activeTask is read by the
\*    DragOverlay only, so from such a state only a new drag is explored.
\* A reload is possible at any time.
Panes == {"board", "sidebar"}
overlayStale == ~dndActive.has /\ activeTask.has
OnBoard == phase = "running" /\ focus = "board"
BoardIdle == OnBoard /\ ~showTaskModal /\ ~dndActive.has /\ ~activeTask.has
InModal == OnBoard /\ showTaskModal
OnSidebar == phase = "running" /\ focus = "sidebar"


\* ------------------------------------------------------------ initialisers
getItem(ls, key) == ls[key]
truthy(saved) == saved.has /\ saved.val # Empty

\* useState<Task[]>(() => ...): ok = FALSE when the initialiser throws.  A
\* parsed value that is no array makes the first render throw as well
\* (tasks.filter / todos.map is not a function).
\* Mutant: the parse is guarded and a malformed entry falls back to [].
tasksInitialiser_guarded(ls) ==
  LET saved == getItem(ls, KeyTasks)
  IN IF truthy(saved)
       THEN LET p == JSONparse(saved.val)
            IN IF p.ok /\ p.val.k = "arr"
                 THEN [ok |-> TRUE,
                       val |-> [i \in 1..Len(p.val.v) |-> asTask(p.val.v[i])]]
                 ELSE [ok |-> TRUE, val |-> <<>>]
       ELSE [ok |-> TRUE, val |-> <<>>]

tasksInitialiser(ls) ==
  LET saved == getItem(ls, KeyTasks)
  IN IF truthy(saved)
       THEN LET p == JSONparse(saved.val)
            IN IF p.ok /\ p.val.k = "arr"
                 THEN [ok |-> TRUE,
                       val |-> [i \in 1..Len(p.val.v) |-> asTask(p.val.v[i])]]
                 ELSE [ok |-> FALSE, val |-> <<>>]
       ELSE [ok |-> TRUE, val |-> <<>>]

todosInitialiser(ls) ==
  LET saved == getItem(ls, KeyTodos)
  IN IF truthy(saved)
       THEN LET p == JSONparse(saved.val)
            IN IF p.ok /\ p.val.k = "arr"
                 THEN [ok |-> TRUE,
                       val |-> [i \in 1..Len(p.val.v) |-> asTodo(p.val.v[i])]]
                 ELSE [ok |-> FALSE, val |-> <<>>]
       ELSE [ok |-> TRUE, val |-> <<>>]

notesInitialiser(ls) ==
  LET saved == getItem(ls, KeyNotes)
  IN IF truthy(saved) THEN saved.val ELSE Empty

\* ----------------------------------------------------------- persist effects
setItem(ls, key, text) == [ls EXCEPT ![key] = Some(text)]

\* Mutant: the tasks effect writes under the quick-todos key.
persistTasks_wrongKey(ls, ts) == setItem(ls, KeyTodos, stringifyTasks(ts))

persistTasks(ls, ts) == setItem(ls, KeyTasks, stringifyTasks(ts))
persistTodos(ls, qs) == setItem(ls, KeyTodos, stringifyTodos(qs))
persistNotes(ls, n) == setItem(ls, KeyNotes, n)

\* ------------------------------------------------------------------- start
Init ==
  /\ focus \in Panes
  /\ localStorage \in
       {[k \in StorageKeys |->
           IF k = KeyTasks THEN t ELSE IF k = KeyTodos THEN q ELSE n] :
          t \in InitialTaskEntries, q \in InitialTodoEntries,
          n \in InitialNoteEntries}
  /\ focus = "board" =>
       /\ localStorage[KeyTodos] \in {Null, Some(Truncated)}
       /\ localStorage[KeyNotes] = Null
  /\ focus = "sidebar" => localStorage[KeyTasks] \in {Null, Some(Truncated)}
  /\ phase = "boot"
  /\ tasks = <<>> /\ todos = <<>> /\ notes = Empty
  /\ activeTask = Null
  /\ newTodo = Empty
  /\ showTaskModal = FALSE
  /\ newTaskStatus = TODO
  /\ newTaskTitle = Empty
  /\ newTaskDesc = Empty
  /\ dndActive = Null
  /\ lastOp = "load"

\* First render of App: the three initialisers in order, then (if neither
\* threw) the commit and the three persist effects.  When an initialiser
\* throws nothing is committed and no effect runs.
Start(name) ==
  LET ti == tasksInitialiser(localStorage)
      qi == todosInitialiser(localStorage)
      ni == notesInitialiser(localStorage)
  IN /\ lastOp' = name
     /\ dndActive' = Null
     /\ UNCHANGED focus
     /\ IF ti.ok /\ qi.ok
          THEN /\ phase' = "running"
               /\ tasks' = ti.val
               /\ todos' = qi.val
               /\ notes' = ni
               /\ activeTask' = Null
               /\ newTodo' = Empty
               /\ showTaskModal' = FALSE
               /\ newTaskStatus' = TODO
               /\ newTaskTitle' = Empty
               /\ newTaskDesc' = Empty
               /\ localStorage' =
                    persistNotes(
                      persistTodos(persistTasks(localStorage, ti.val), qi.val),
                      ni)
          ELSE /\ phase' = "crashed"
               /\ tasks' = <<>> /\ todos' = <<>> /\ notes' = Empty
               /\ activeTask' = Null
               /\ newTodo' = Empty
               /\ showTaskModal' = FALSE
               /\ newTaskStatus' = TODO
               /\ newTaskTitle' = Empty
               /\ newTaskDesc' = Empty
               /\ UNCHANGED localStorage

Mount == phase = "boot" /\ Start("mount")

\* the page is reloaded: the state is rebuilt from storage
Reload == phase = "running" /\ Start("reload")

\* ------------------------------------------------------------ array helpers
\* Array.prototype.find by id: the index of the first match, 0 when none
findIndex(ts, id) ==
  IF \E i \in 1..Len(ts) : ts[i].id = id
    THEN CHOOSE i \in 1..Len(ts) :
           ts[i].id = id /\ \A j \in 1..(i - 1) : ts[j].id # id
    ELSE 0

\* prev.filter((t) => t.id !== id)
RECURSIVE filterOut(_, _)
filterOut(prev, id) ==
  IF prev = <<>> THEN <<>>
  ELSE IF Head(prev).id # id THEN <<Head(prev)>> \o filterOut(Tail(prev), id)
  ELSE filterOut(Tail(prev), id)

\* prev.map((t) => (t.id === id ? { ...t, status } : t))
setStatus(prev, id, status) ==
  [i \in 1..Len(prev) |->
     IF prev[i].id = id THEN [prev[i] EXCEPT !.status = status] ELSE prev[i]]

\* prev.map((t) => (t.id === id ? { ...t, done: !t.done } : t))
toggleDone(prev, id) ==
  [i \in 1..Len(prev) |->
     IF prev[i].id = id THEN [prev[i] EXCEPT !.done = ~prev[i].done] ELSE prev[i]]

\* Mutant: the new item is put first.
appendItem_prepend(prev, item) == <<item>> \o prev

\* [...prev, item]
appendItem(prev, item) == Append(prev, item)

\* the cards a column renders: tasks.filter((t) => t.status === col.id), for
\* each of the three columns.  Each card is a draggable and a droppable
\* (useSortable); Column registers none of its own.
renderedIds(ts) == {ts[i].id : i \in {j \in 1..Len(ts) : ts[j].status \in TaskStatus}}

\* ----------------------------------------------------------- drag and drop
\* handleDragEnd's update of the task list for the event {active, over};
\* over is Null or Some(id).  set = FALSE when setTasks is not called.
handleDragEnd(ts, activeId, over) ==
  LET a == findIndex(ts, activeId)
      keep == [set |-> FALSE, tasks |-> ts]
  IN IF ~over.has THEN keep
     ELSE IF a = 0 THEN keep
     ELSE IF \E c \in 1..Len(COLUMNS) : COLUMNS[c] = over.val
       THEN [set |-> TRUE, tasks |-> setStatus(ts, activeId, over.val)]
     ELSE LET o == findIndex(ts, over.val)
          IN IF o # 0 /\ ts[a].status # ts[o].status
               THEN [set |-> TRUE, tasks |-> setStatus(ts, activeId, ts[o].status)]
               ELSE keep

\* The sensor activates a drag of a rendered card; handleDragStart.
DragStart ==
  /\ OnBoard /\ ~showTaskModal
  /\ ~dndActive.has
  /\ \E id \in renderedIds(tasks) :
       /\ dndActive' = Some(id)
       /\ activeTask' = IF findIndex(tasks, id) # 0
                          THEN Some(tasks[findIndex(tasks, id)]) ELSE activeTask
       /\ lastOp' = "dragStart"
  /\ UNCHANGED <<localStorage, phase, tasks, todos, notes, newTodo,
                 showTaskModal, newTaskStatus, newTaskTitle, newTaskDesc, focus>>

\* The drag ends over droppable `over` (or over none); handleDragEnd, then
\* the tasks effect when setTasks was called.
DropOn(over) ==
  LET r == handleDragEnd(tasks, dndActive.val, over)
  IN /\ dndActive' = Null
     /\ activeTask' = Null
     /\ tasks' = r.tasks
     /\ localStorage' = IF r.set THEN persistTasks(localStorage, r.tasks)
                        ELSE localStorage
     /\ lastOp' = "dragEnd"
     /\ UNCHANGED <<phase, todos, notes, newTodo, showTaskModal, newTaskStatus,
                    newTaskTitle, newTaskDesc, focus>>

DragEnd ==
  /\ OnBoard
  /\ dndActive.has
  /\ \E over \in {Null} \cup {Some(id) : id \in renderedIds(tasks)} : DropOn(over)

\* The library cancels the drag (Escape, window resize, tab hidden); the
\* DndContext is given no onDragCancel, so no handler runs.
DragCancel ==
  /\ OnBoard
  /\ dndActive.has
  /\ dndActive' = Null
  /\ lastOp' = "dragCancel"
  /\ UNCHANGED <<localStorage, phase, tasks, todos, notes, ui, focus>>

\* -------------------------------------------------------------------- tasks
OpenAddTask ==
  /\ BoardIdle
  /\ \E status \in TaskStatus :
       /\ newTaskStatus' = status
       /\ lastOp' = "openAddTask"
  /\ newTaskTitle' = Empty
  /\ newTaskDesc' = Empty
  /\ showTaskModal' = TRUE
  /\ UNCHANGED <<localStorage, phase, tasks, todos, notes, activeTask, newTodo,
                 dndActive, focus>>

\* the modal's inputs and its Cancel button / overlay
TypeTaskTitle ==
  /\ InModal
  /\ \E s \in TitleInputs : newTaskTitle' = s
  /\ lastOp' = "typeTaskTitle"
  /\ UNCHANGED <<localStorage, phase, tasks, todos, notes, activeTask, newTodo,
                 showTaskModal, newTaskStatus, newTaskDesc, dndActive, focus>>

TypeTaskDesc ==
  /\ InModal
  /\ \E s \in DescInputs : newTaskDesc' = s
  /\ lastOp' = "typeTaskDesc"
  /\ UNCHANGED <<localStorage, phase, tasks, todos, notes, activeTask, newTodo,
                 showTaskModal, newTaskStatus, newTaskTitle, dndActive, focus>>

CloseModal ==
  /\ InModal
  /\ showTaskModal' = FALSE
  /\ lastOp' = "closeModal"
  /\ UNCHANGED <<localStorage, phase, tasks, todos, notes, activeTask, newTodo,
                 newTaskStatus, newTaskTitle, newTaskDesc, dndActive, focus>>

\* Mutant: the guard tests the raw input, not the trimmed one.
addTaskRejects_untrimmed(title) == title = Empty

\* if (!newTaskTitle.trim()) return;
addTaskRejects(title) == trim(title) = Empty

newTask(id, title, desc, status, now) ==
  [id |-> id,
   title |-> trim(title),
   description |-> IF trim(desc) # Empty THEN Some(trim(desc)) ELSE Null,
   status |-> status,
   createdAt |-> now]

AddTask ==
  /\ InModal
  /\ lastOp' = "addTask"
  /\ IF addTaskRejects(newTaskTitle)
       THEN UNCHANGED <<tasks, showTaskModal, localStorage>>
       ELSE /\ Len(tasks) < MaxTasks
            /\ \E id \in generateId, now \in Timestamps :
                 tasks' = appendItem(tasks,
                            newTask(id, newTaskTitle, newTaskDesc, newTaskStatus, now))
            /\ showTaskModal' = FALSE
            /\ localStorage' = persistTasks(localStorage, tasks')
  /\ UNCHANGED <<phase, todos, notes, activeTask, newTodo, newTaskStatus,
                 newTaskTitle, newTaskDesc, dndActive, focus>>

\* the delete button of a rendered card
DeleteTask ==
  /\ OnBoard /\ ~showTaskModal /\ ~overlayStale
  /\ \E id \in renderedIds(tasks) :
       /\ tasks' = filterOut(tasks, id)
       /\ lastOp' = "deleteTask"
  /\ localStorage' = persistTasks(localStorage, tasks')
  /\ UNCHANGED <<phase, todos, notes, ui, dndActive, focus>>

\* -------------------------------------------------------------- quick todos
TypeNewTodo ==
  /\ OnSidebar
  /\ \E s \in TodoInputs : newTodo' = s
  /\ lastOp' = "typeNewTodo"
  /\ UNCHANGED <<localStorage, phase, tasks, todos, notes, activeTask,
                 showTaskModal, newTaskStatus, newTaskTitle, newTaskDesc, dndActive, focus>>

\* if (!newTodo.trim()) return;
addTodoRejects(text) == trim(text) = Empty

newQuickTodo(id, text) == [id |-> id, text |-> trim(text), done |-> FALSE]

AddTodo ==
  /\ OnSidebar
  /\ lastOp' = "addTodo"
  /\ IF addTodoRejects(newTodo)
       THEN UNCHANGED <<todos, newTodo, localStorage>>
       ELSE /\ Len(todos) < MaxTodos
            /\ \E id \in generateId :
                 todos' = appendItem(todos, newQuickTodo(id, newTodo))
            /\ newTodo' = Empty
            /\ localStorage' = persistTodos(localStorage, todos')
  /\ UNCHANGED <<phase, tasks, notes, activeTask, showTaskModal, newTaskStatus,
                 newTaskTitle, newTaskDesc, dndActive, focus>>

ToggleTodo ==
  /\ OnSidebar
  /\ \E i \in 1..Len(todos) :
       /\ todos' = toggleDone(todos, todos[i].id)
       /\ lastOp' = "toggleTodo"
  /\ localStorage' = persistTodos(localStorage, todos')
  /\ UNCHANGED <<phase, tasks, notes, ui, dndActive, focus>>

DeleteTodo ==
  /\ OnSidebar
  /\ \E i \in 1..Len(todos) :
       /\ todos' = filterOut(todos, todos[i].id)
       /\ lastOp' = "deleteTodo"
  /\ localStorage' = persistTodos(localStorage, todos')
  /\ UNCHANGED <<phase, tasks, notes, ui, dndActive, focus>>

\* -------------------------------------------------------------------- notes
EditNotes ==
  /\ OnSidebar
  /\ \E s \in NoteInputs : notes' = s
  /\ lastOp' = "editNotes"
  /\ localStorage' = persistNotes(localStorage, notes')
  /\ UNCHANGED <<phase, tasks, todos, ui, dndActive, focus>>

Next ==
  \/ Mount \/ Reload
  \/ DragStart \/ DragEnd \/ DragCancel
  \/ OpenAddTask \/ TypeTaskTitle \/ TypeTaskDesc \/ CloseModal
  \/ AddTask \/ DeleteTask
  \/ TypeNewTodo \/ AddTodo \/ ToggleTodo \/ DeleteTodo
  \/ EditNotes

Spec == Init /\ [][Next]_vars

\* The page opened for the first time: nothing stored.
InitFresh == Init /\ \A k \in StorageKeys : localStorage[k] = Null
SpecFresh == InitFresh /\ [][Next]_vars

\* handleDragEnd as a handler: besides the drops the board can deliver, it is
\* fired with a column id as the drop target (the case of its first branch).
DragEndOnColumn ==
  /\ OnBoard
  /\ dndActive.has
  /\ \E c \in 1..Len(COLUMNS) : DropOn(Some(COLUMNS[c]))

NextHandler == Next \/ DragEndOnColumn
SpecHandler == Init /\ [][NextHandler]_vars
SpecHandlerFresh == InitFresh /\ [][NextHandler]_vars

\* ================================================================== claims
Running == phase = "running"
TaskIds(ts) == [i \in 1..Len(ts) |-> ts[i].id]
IsBlank(s) == \A i \in 1..Len(s) : s[i] = SP

\* ---- C1 ----------------------------------------------------------------
C1_DropTargets ==
  {Some(COLUMNS[c]) : c \in 1..Len(COLUMNS)}
    \cup {Some(tasks[i].id) : i \in 1..Len(tasks)}

\* the status the claim gives the dragged task (at position a) for a drop on
\* `over`, Null when the claim does not speak
C1_NewStatus(a, over) ==
  IF over.val \in TaskStatus THEN Some(over.val)
  ELSE LET o == findIndex(tasks, over.val)
       IN IF o # 0 /\ o # a /\ tasks[o].status # tasks[a].status
            THEN Some(tasks[o].status) ELSE Null

\* C1: when handleDragEnd fires for an existing dragged task, a drop on a
\* column gives the dragged task that column's id as status, a drop on
\* another task of a different status gives it that task's status, and
\* nothing else in the list changes: every other task, and the dragged
\* task's other fields, are as before.
C1_DropMovesOnlyTheDraggedTask ==
  [][\A over \in C1_DropTargets :
       (/\ Running /\ dndActive.has
        /\ findIndex(tasks, dndActive.val) # 0
        /\ C1_NewStatus(findIndex(tasks, dndActive.val), over).has
        /\ DropOn(over))
       => tasks' = [tasks EXCEPT
                      ![findIndex(tasks, dndActive.val)].status =
                        C1_NewStatus(findIndex(tasks, dndActive.val), over).val]]_vars

\* ---- C2 ----------------------------------------------------------------
\* the task lists one drag-start / drag-end pair can produce from ts, the drop
\* target being one of the registered droppables (the rendered cards)
dragResults(ts) ==
  {handleDragEnd(ts, a, Some(o)).tasks : a \in renderedIds(ts), o \in renderedIds(ts)}

RECURSIVE dragClosure(_)
dragClosure(S) ==
  LET N == S \cup UNION {dragResults(ts) : ts \in S}
  IN IF N = S THEN S ELSE dragClosure(N)

\* C2: from every reachable state and for every task t in it and every one
\* of the three statuses s, some sequence of drags alone, dropping on
\* registered droppables, gives t the status s (drags never move a task, so
\* t is the task at its position).
C2_EveryStatusReachableByDrag ==
  Running =>
    \A i \in 1..Len(tasks) : \A s \in TaskStatus :
      \E ts \in dragClosure({tasks}) : ts[i].status = s

\* ---- C3 ----------------------------------------------------------------
\* C3: in every quiescent state of the running app the three storage entries
\* hold the JSON encoding of the task list, the JSON encoding of the
\* quick-todo list and the notes text.
C3_StateMirroredToStorage ==
  Running =>
    /\ localStorage[KeyTasks] = Some(stringifyTasks(tasks))
    /\ localStorage[KeyTodos] = Some(stringifyTodos(todos))
    /\ localStorage[KeyNotes] = Some(notes)

C3_Witness ==
  /\ Running /\ lastOp = "dragEnd"
  /\ Len(tasks) = 2 /\ tasks[1].id # tasks[2].id
  /\ tasks[1].status = tasks[2].status
  /\ tasks[2].status # newTaskStatus

\* ---- C4 ----------------------------------------------------------------
\* C4: a reload rebuilds from storage the task list, the quick-todo list and
\* the notes text the app had before it.
C4_ReloadRoundTrips ==
  [][lastOp' = "reload" =>
       /\ phase' = "running"
       /\ tasks' = tasks /\ todos' = todos /\ notes' = notes]_vars

C4_Witness ==
  /\ Running /\ lastOp = "reload"
  /\ Len(tasks) = 2
  /\ tasks[1].description.has /\ ~tasks[2].description.has

\* ---- C5 ----------------------------------------------------------------
\* C5: addTask on an empty or white-space title leaves the task list and the
\* open modal as they are; addTodo on an empty or white-space input leaves
\* the quick-todo list and the input as they are; so, starting from empty
\* storage, no task has an empty title and no quick todo an empty text.
C5_EmptyInputRejected ==
  /\ [][(lastOp' = "addTask" /\ IsBlank(newTaskTitle)) =>
          (tasks' = tasks /\ showTaskModal /\ showTaskModal')]_vars
  /\ [][(lastOp' = "addTodo" /\ IsBlank(newTodo)) =>
          (todos' = todos /\ newTodo' = newTodo)]_vars
  /\ [](/\ \A i \in 1..Len(tasks) : tasks[i].title # Empty
        /\ \A i \in 1..Len(todos) : todos[i].text # Empty)

C5_Witness ==
  /\ Running /\ lastOp = "addTask"
  /\ showTaskModal /\ newTaskTitle # Empty /\ IsBlank(newTaskTitle)
  /\ Len(tasks) = 1

\* ---- C6 ----------------------------------------------------------------
\* C6: no two tasks share an id and no two quick todos share an id.
C6_IdsUnique ==
  /\ \A i, j \in 1..Len(tasks) : i # j => tasks[i].id # tasks[j].id
  /\ \A i, j \in 1..Len(todos) : i # j => todos[i].id # todos[j].id

\* ---- C7 ----------------------------------------------------------------
\* seq with the positions outside keep removed
RECURSIVE C7_Select(_, _, _)
C7_Select(seq, keep, i) ==
  IF i > Len(seq) THEN <<>>
  ELSE (IF i \in keep THEN <<seq[i]>> ELSE <<>>) \o C7_Select(seq, keep, i + 1)

C7_Appended(old, new) ==
  new # old => (Len(new) = Len(old) + 1 /\ SubSeq(new, 1, Len(old)) = old)

C7_Removed(old, new) ==
  \E keep \in SUBSET (1..Len(old)) : new = C7_Select(old, keep, 1)

C8_StatusInEnumeration ==
  Running => \A i \in 1..Len(tasks) : tasks[i].status \in TaskStatus

\* ---- C9 ----------------------------------------------------------------
C9_Malformed(key) == localStorage[key] = Some(Truncated)
C9_AbsentOrEmpty(key) == localStorage[key] \in {Null, Some(Empty)}

\* C9: a start-up with a malformed tasks or quick-todos entry ends in the
\* error state with storage untouched, and nothing happens from there; a
\* start-up with no malformed entry succeeds, an absent or empty entry giving
\* the empty list.
C9_MalformedEntryCrashesStartUp ==
  /\ [][(lastOp' = "mount" /\ (C9_Malformed(KeyTasks) \/ C9_Malformed(KeyTodos))) =>
          (phase' = "crashed" /\ localStorage' = localStorage)]_vars
  /\ [][phase # "crashed"]_vars
  /\ [][(lastOp' = "mount" /\ ~C9_Malformed(KeyTasks) /\ ~C9_Malformed(KeyTodos)) =>
          /\ phase' = "running"
          /\ C9_AbsentOrEmpty(KeyTasks) => tasks' = <<>>
          /\ C9_AbsentOrEmpty(KeyTodos) => todos' = <<>>]_vars

C9_Witness ==
  /\ phase = "crashed" /\ lastOp = "mount"
  /\ localStorage[KeyTasks] = Some(Truncated)
  /\ localStorage[KeyTodos] # Some(Truncated)

\* ---- C10 ---------------------------------------------------------------
\* C10: whenever no drag is in progress the drag overlay state is cleared.
C10_OverlayClearedWhenNoDrag ==
  (Running /\ ~dndActive.has) => ~activeTask.has
====
